---- MODULE Spec2Model ----
(***************************************************************************)
(* A model of NN::Network (src/include/Network.hpp): the members of one   *)
(* Network instance, the two process-wide loss registries, and one action *)
(* per public operation.  train() is modelled statement by statement, so  *)
(* that the position of the loop is part of the state.                    *)
(*                                                                         *)
(* Matrices and vectors are abstracted to their dimensions plus a content *)
(* tag; the arithmetic of a Layer lives in Layer.hpp, which is not part   *)
(* of the sources, so a Layer is modelled by its contract: what it stores, *)
(* and abstract pure functions of the tags for what it computes.  The     *)
(* value of a loss function is a free choice.                             *)
(***************************************************************************)
EXTENDS Integers, Sequences, FiniteSets, TLC

\* ------------------------------------------------------------------ bounds
MaxDim == 2          \* rows, columns, vector lengths and layer widths: 1..MaxDim
MaxLayers == 3       \* longest layer list the structural edits build
MaxArgLayers == 2    \* longest layer list a caller passes in
MaxLoss == 1         \* scalar loss and stopTol values: 0..MaxLoss
MaxIterArg == 2      \* maxIter values passed to train: 0..MaxIterArg
SizeBits == 3        \* width of size_t in the model (num_iter wraps at 2^SizeBits)

Dims == 1..MaxDim
Shapes == Dims \X Dims
Losses == 0..MaxLoss
Tols == Losses
SizeMod == 2^SizeBits
\* The longest loss history explored: one train() call that runs to maxIter.
MaxHist == MaxIterArg + 1
\* The same for a call whose maxIter is mi: beyond MaxIterArg, two steps more
\* than the mi + 1 the counter allows.
HistCap(mi) == IF mi <= MaxIterArg THEN MaxHist ELSE mi + 3
\* Content tags of matrices, vectors and weights: equal tags, equal contents.
Vals == {0, 1}

\* Mat: an Eigen matrix, its dimensions and a tag standing for its entries.
Mats == [rows : Dims, cols : Dims, val : Vals]
\* Vec: an Eigen vector, its length and a tag standing for its entries.
Vecs == [size : Dims, val : Vals]
\* std::nullopt for the optional arguments of predict / train.
NoMat == [rows |-> -1, cols |-> -1, val |-> 0]
NoVec == [size |-> -1, val |-> 0]
OptMats == Mats \cup {NoMat}
OptVecs == Vecs \cup {NoVec}
\* Mat(0, 0): what the default member initialiser of inputs builds while
\* input_shape is still the value-initialised pair (0, 0).
EmptyMat == [rows |-> 0, cols |-> 0, val |-> 0]
\* Vec(): the default-constructed resid.
EmptyVec == [size |-> 0, val |-> 0]

\* Activation names and update-rule hyperparameters (updateArgs...).
Acts == {"sigmoid", "relu"}
DefaultAct == "sigmoid"
Params == Vals

\* Layer<update, updateArgs...> as its constructor leaves it (constructor call
\* at line 79): declared input shape, output width, weights, activation,
\* default hyperparameters, and caches that are still empty matrices.  input is
\* the content tag of the matrix the next forward pass reads, output the matrix
\* the last one produced, err / grad the tags of the error term and parameter
\* gradient of the last backward pass.
LayerSet == [inputShape : Shapes, numOutputs : Dims, weights : Vals,
             activation : Acts, params : {0},
             input : {EmptyMat.val}, output : {EmptyMat},
             err : {EmptyMat.val}, grad : {EmptyMat.val}]

\* Layer lists of length 1..n.
RECURSIVE LayerLists(_)
LayerLists(n) ==
  IF n = 0 THEN {}
  ELSE LayerLists(n - 1) \cup [1..n -> LayerSet]

ShapeOf(m) == <<m.rows, m.cols>>

\* ----------------------------------------------------------------- state
VARIABLES
  input_shape,             \* std::pair<int_t,int_t>
  inputs,                  \* Mat
  num_outputs,             \* int_t
  target,                  \* Vec
  layers,                  \* std::list<Layer>
  layer_input_shapes,      \* std::list<std::pair<int_t,int_t>>
  vector_loss_func,        \* std::function: "L2", "custom" or "empty"
  vector_loss_derivative,  \* std::function: "L2", "custom" or "empty"
  scalar_loss,             \* double
  outputs,                 \* Vec
  resid,                   \* Vec
  loss_deriv,              \* Vec
  gradient,                \* Mat, as the tag of its contents
  calls,                   \* Layer and loss-function calls of the last pass
  trainingLoss,            \* std::vector<double>
  VECTOR_LOSS,             \* global registry: name -> function
  VECTOR_LOSS_DERIVATIVE,  \* global registry: name -> function
  pc,                      \* "idle", or the line of train() about to run
  stopTol, maxIter, noprint, num_iter,   \* parameters and local of train()
  warned,                  \* the running/last train() wrote the warning to cout
  err,                     \* what the last call threw ("none" if it returned)
  lastOp,                  \* the last public operation called
  events                   \* what the running/last train() has executed so far

netVars == <<input_shape, inputs, num_outputs, target, layers, layer_input_shapes,
             vector_loss_func, vector_loss_derivative, scalar_loss>>
resultVars == <<outputs, resid, loss_deriv, gradient>>
passVars == <<resultVars, calls>>
regVars == <<VECTOR_LOSS, VECTOR_LOSS_DERIVATIVE>>
trainVars == <<pc, stopTol, maxIter, noprint, num_iter, warned, events>>
vars == <<netVars, passVars, trainingLoss, regVars, trainVars, err, lastOp>>

\* --------------------------------------------------------------- Layer
\* Layer::setInputShape(shape): redeclares the layer's input shape.
LayerSetInputShape(l, shape) == [l EXCEPT !.inputShape = shape]

\* Layer::setInputs(m): hands the layer the matrix its next forward pass
\* reads; the declared input shape is what setInputShape sets.
LayerSetInputs(l, m) == [l EXCEPT !.input = m.val]

\* Layer::setWeights(w)
LayerSetWeights(l, w) == [l EXCEPT !.weights = w]

\* Layer::getWeights()
LayerGetWeights(l) == l.weights

\* Layer::setUpdateParams(args...)
LayerSetUpdateParams(l, args) == [l EXCEPT !.params = args]

\* Layer::setActivation(name)
LayerSetActivation(l, act) == [l EXCEPT !.activation = act]

\* An abstract pure function of two content tags: equal arguments, equal result.
Mix(a, b) == IF a = b THEN 0 ELSE 1

\* Layer::forwardPass(): the output, numOutputs long, is a pure function of
\* the weights and the cached input.
LayerForwardPass(l) ==
  [l EXCEPT !.output = [rows |-> l.numOutputs, cols |-> 1,
                     val |-> Mix(l.input, l.weights)]]

\* Layer::getOutputs()
LayerGetOutputs(l) == l.output

\* Layer::backwardPass(const Vec& lossGradient): the last layer's error term
\* and parameter gradient from the loss gradient.
LayerBackwardPassLoss(l, d) ==
  [l EXCEPT !.err = Mix(d.val, l.weights),
            !.grad = Mix(Mix(d.val, l.weights), l.input)]

\* Layer::backwardPass(const Layer& next): error term and parameter gradient
\* from the error term of the next layer.
LayerBackwardPassLayer(l, next) ==
  [l EXCEPT !.err = Mix(next.err, l.weights),
            !.grad = Mix(Mix(next.err, l.weights), l.input)]

\* Layer::getGradient()
LayerGetGradient(l) == l.grad

\* ------------------------------------------------------------ registries
LossNames == {"L2", "huber"}

\* The registries as the translation unit initialises them.
InitRegistry == [n \in {"L2"} |-> "L2"]

\* std::unordered_map::operator[]: the mapped value, default-constructed
\* (an empty std::function) and inserted when the key is absent.
Lookup(reg, name) == IF name \in DOMAIN reg THEN reg[name] ELSE "empty"
AfterLookup(reg, name) ==
  IF name \in DOMAIN reg THEN reg
  ELSE [n \in DOMAIN reg \cup {name} |-> IF n = name THEN "empty" ELSE reg[n]]

\* ------------------------------------------------------------ shape lists
\* for(const auto& it : layers) shapes.push_back(it.getInputShape());
InputShapesOf(ls) == [i \in 1..Len(ls) |-> ls[i].inputShape]

Last(s) == s[Len(s)]

\* -------------------------------------------------------------- Init
IdleTrain ==
  /\ pc = "idle"
  /\ stopTol = 0
  /\ maxIter = 0
  /\ noprint = FALSE
  /\ num_iter = 0
  /\ warned = FALSE
  /\ events = <<>>

\* Network(input_shape, num_outputs, activation, loss)
Ctor1(shape, nout, loss) ==
  /\ input_shape = shape
  /\ inputs \in {m \in Mats : ShapeOf(m) = shape}
  /\ num_outputs = nout
  /\ target \in {v \in Vecs : v.size = nout}
  /\ vector_loss_func = Lookup(InitRegistry, loss)
  /\ vector_loss_derivative = Lookup(InitRegistry, loss)
  /\ VECTOR_LOSS = AfterLookup(InitRegistry, loss)
  /\ VECTOR_LOSS_DERIVATIVE = AfterLookup(InitRegistry, loss)
  /\ layers \in {ls \in [1..1 -> LayerSet] :
                   ls[1].inputShape = shape /\ ls[1].numOutputs = nout}
  /\ layer_input_shapes = <<shape>>
  /\ scalar_loss \in Losses
  /\ outputs \in {v \in Vecs : v.size = nout}
  /\ loss_deriv \in {v \in Vecs : v.size = nout}
  /\ resid = EmptyVec
  /\ gradient = EmptyMat.val
  /\ calls = <<>>
  /\ trainingLoss = <<>>
  /\ IdleTrain
  /\ err = "none"
  /\ lastOp = "Network1"

\* Network(initializer_list<Layer>): the loss functions stay default-constructed;
\* inputs is sized from the value-initialised input_shape; target, outputs and
\* loss_deriv from num_outputs before anything is stored in it (any length).
Ctor2(ls) ==
  /\ layers = ls
  /\ layer_input_shapes = InputShapesOf(ls)
  /\ input_shape = layer_input_shapes[1]
  /\ num_outputs = Last(layer_input_shapes)[2]
  /\ inputs = EmptyMat
  /\ target \in Vecs
  /\ vector_loss_func = "empty"
  /\ vector_loss_derivative = "empty"
  /\ VECTOR_LOSS = InitRegistry
  /\ VECTOR_LOSS_DERIVATIVE = InitRegistry
  /\ scalar_loss \in Losses
  /\ outputs \in Vecs
  /\ loss_deriv \in Vecs
  /\ resid = EmptyVec
  /\ gradient = EmptyMat.val
  /\ calls = <<>>
  /\ trainingLoss = <<>>
  /\ IdleTrain
  /\ err = "none"
  /\ lastOp = "Network2"

\* Network(activation, loss, initializer_list<Layer>)
Ctor3(loss, ls) ==
  /\ layers = ls
  /\ layer_input_shapes = InputShapesOf(ls)
  /\ input_shape = layer_input_shapes[1]
  /\ num_outputs = Last(layer_input_shapes)[2]
  /\ inputs = EmptyMat
  /\ target \in Vecs
  /\ vector_loss_func = Lookup(InitRegistry, loss)
  /\ vector_loss_derivative = Lookup(InitRegistry, loss)
  /\ VECTOR_LOSS = AfterLookup(InitRegistry, loss)
  /\ VECTOR_LOSS_DERIVATIVE = AfterLookup(InitRegistry, loss)
  /\ scalar_loss \in Losses
  /\ outputs \in Vecs
  /\ loss_deriv \in Vecs
  /\ resid = EmptyVec
  /\ gradient = EmptyMat.val
  /\ calls = <<>>
  /\ trainingLoss = <<>>
  /\ IdleTrain
  /\ err = "none"
  /\ lastOp = "Network3"

\* ------------------------------------------------- operations (idle only)
Idle == pc = "idle"

\* An operation that runs neither a forward nor a backward pass: it makes none
\* of the calls recorded in calls, and leaves the results of the last pass.
NoPass ==
  /\ calls' = <<>>
  /\ UNCHANGED resultVars

\* setInputs that checks the rows only: a matrix with the wrong number of
\* columns is stored.
SetInputsRowsOnly(m, ov) ==
  /\ Idle
  /\ lastOp' = IF ov THEN "setInputsOverride" ELSE "setInputs"
  /\ IF ~ov /\ m.rows # input_shape[1]
     THEN /\ err' = "ShapeMismatch"
          /\ UNCHANGED netVars
     ELSE /\ err' = "none"
          /\ inputs' = m
          /\ input_shape' = IF ov THEN <<m.rows, m.cols>> ELSE input_shape
          /\ layer_input_shapes' =
               IF ov THEN [layer_input_shapes EXCEPT ![1] = input_shape']
               ELSE layer_input_shapes
          /\ UNCHANGED <<num_outputs, target, layers, vector_loss_func,
                         vector_loss_derivative, scalar_loss>>
  /\ UNCHANGED <<trainingLoss, regVars, trainVars>>
  /\ NoPass

\* void setInputs(const Mat& _inputs, bool overrideInputShape = false)
SetInputs(m, ov) ==
  /\ Idle
  /\ lastOp' = IF ov THEN "setInputsOverride" ELSE "setInputs"
  /\ IF ~ov
     THEN IF m.rows # input_shape[1]
          THEN /\ err' = "ShapeMismatch"
               /\ UNCHANGED netVars
          ELSE IF m.cols # input_shape[2]
          THEN /\ err' = "ShapeMismatch"
               /\ UNCHANGED netVars
          ELSE /\ err' = "none"
               /\ inputs' = m
               /\ UNCHANGED <<input_shape, num_outputs, target, layers,
                              layer_input_shapes, vector_loss_func,
                              vector_loss_derivative, scalar_loss>>
     ELSE /\ err' = "none"
          /\ inputs' = m
          /\ input_shape' = <<m.rows, m.cols>>
          /\ layers' = [layers EXCEPT ![1] = LayerSetInputs(@, m)]
          /\ layer_input_shapes' = [layer_input_shapes EXCEPT ![1] = input_shape']
          /\ UNCHANGED <<num_outputs, target, vector_loss_func,
                         vector_loss_derivative, scalar_loss>>
  /\ UNCHANGED <<trainingLoss, regVars, trainVars>>
  /\ NoPass

\* void setTarget(const Vec& _target, bool overrideTargetSize = false)
SetTarget(v, ov) ==
  /\ Idle
  /\ lastOp' = IF ov THEN "setTargetOverride" ELSE "setTarget"
  /\ IF v.size # num_outputs
     THEN IF ov
          THEN /\ err' = "none"
               /\ num_outputs' = target.size
               /\ layer_input_shapes' =
                    [layer_input_shapes EXCEPT ![Len(layer_input_shapes)] =
                                                 <<@[1], num_outputs'>>]
               /\ layers' = [layers EXCEPT ![Len(layers)] =
                               LayerSetInputShape(@, Last(layer_input_shapes'))]
               /\ target' = v
               /\ UNCHANGED <<input_shape, inputs, vector_loss_func,
                              vector_loss_derivative, scalar_loss>>
          ELSE /\ err' = "ShapeMismatch"
               /\ UNCHANGED netVars
     ELSE /\ err' = "none"
          /\ target' = v
          /\ UNCHANGED <<input_shape, inputs, num_outputs, layers,
                         layer_input_shapes, vector_loss_func,
                         vector_loss_derivative, scalar_loss>>
  /\ UNCHANGED <<trainingLoss, regVars, trainVars>>
  /\ NoPass

\* setLayers that starts the loss history afresh for the new layers.
SetLayersResetHistory(newLayers) ==
  /\ Idle
  /\ lastOp' = "setLayers"
  /\ err' = "none"
  /\ layers' = newLayers
  /\ layer_input_shapes' = InputShapesOf(layers')
  /\ input_shape' = layer_input_shapes'[1]
  /\ num_outputs' = Last(layer_input_shapes')[2]
  /\ trainingLoss' = <<>>
  /\ UNCHANGED <<inputs, target, vector_loss_func, vector_loss_derivative,
                 scalar_loss, regVars, trainVars>>
  /\ NoPass

\* void setLayers(const std::list<Layer>& newLayers)
SetLayers(newLayers) ==
  /\ Idle
  /\ lastOp' = "setLayers"
  /\ err' = "none"
  /\ layers' = newLayers
  /\ layer_input_shapes' = InputShapesOf(layers')
  /\ input_shape' = layer_input_shapes'[1]
  /\ num_outputs' = Last(layer_input_shapes')[2]
  /\ UNCHANGED <<inputs, target, vector_loss_func, vector_loss_derivative,
                 scalar_loss, trainingLoss, regVars, trainVars>>
  /\ NoPass

\* appendLayers that splices the layers without recording their shapes.
DoAppendLayersNoShapes(newLayers) ==
  /\ num_outputs' = Last(layer_input_shapes)[2]
  /\ layers' = layers \o newLayers
  /\ UNCHANGED <<input_shape, inputs, target, layer_input_shapes,
                 vector_loss_func, vector_loss_derivative, scalar_loss>>

\* The body of appendLayers(newLayers), also run by insertLayer at end().
DoAppendLayers(newLayers) ==
  /\ layer_input_shapes' = layer_input_shapes \o InputShapesOf(newLayers)
  /\ num_outputs' = Last(layer_input_shapes')[2]
  /\ layers' = layers \o newLayers
  /\ UNCHANGED <<input_shape, inputs, target, vector_loss_func,
                 vector_loss_derivative, scalar_loss>>

\* void appendLayers(std::list<Layer>& newLayers)
AppendLayers(newLayers) ==
  /\ Idle
  /\ lastOp' = "appendLayers"
  /\ err' = "none"
  /\ DoAppendLayers(newLayers)
  /\ UNCHANGED <<trainingLoss, regVars, trainVars>>
  /\ NoPass

\* s with x inserted before position i (std::list::insert).
InsertBefore(s, i, x) == SubSeq(s, 1, i - 1) \o <<x>> \o SubSeq(s, i, Len(s))

\* void insertLayer(iterator& location, const Layer& newLayer);
\* location Len(layers) + 1 is layers.end().
InsertLayer(location, newLayer) ==
  /\ Idle
  /\ lastOp' = "insertLayer"
  /\ err' = "none"
  /\ IF location = Len(layers) + 1
     THEN DoAppendLayers(<<newLayer>>)
     ELSE /\ layers' = InsertBefore(layers, location, newLayer)
          /\ layer_input_shapes' = InputShapesOf(layers')
          /\ input_shape' = layer_input_shapes'[1]
          /\ num_outputs' = Last(layer_input_shapes')[2]
          /\ UNCHANGED <<inputs, target, vector_loss_func,
                         vector_loss_derivative, scalar_loss>>
  /\ UNCHANGED <<trainingLoss, regVars, trainVars>>
  /\ NoPass

\* Layers as a caller builds them, and the lists handed to the structural edits.
UnitLayer == [inputShape |-> <<1, 1>>, numOutputs |-> 1, weights |-> 0,
              activation |-> DefaultAct, params |-> 0, input |-> EmptyMat.val,
              output |-> EmptyMat, err |-> EmptyMat.val, grad |-> EmptyMat.val]
NewLayers == {l \in LayerSet : l.weights = 0 /\ l.activation = DefaultAct}
NewLayerLists == {ls \in LayerLists(MaxArgLayers) : \A i \in 1..Len(ls) : ls[i] \in NewLayers}

\* --------------------------------------- structural edits on their own
InitStruct ==
  /\ \/ \E shape \in Shapes, nout \in Dims : Ctor1(shape, nout, "L2")
     \/ \E ls \in NewLayerLists : Ctor2(ls)
     \/ \E ls \in NewLayerLists : Ctor3("L2", ls)
  /\ scalar_loss = 0
  /\ layers[1].activation = DefaultAct
  /\ outputs.val = 0
  /\ outputs.size = 1 \/ lastOp = "Network1"
  /\ loss_deriv = outputs

\* The structural edits, on layer lists of at most cap layers.
StructOps(cap) ==
  \/ \E ls \in NewLayerLists : SetLayers(ls)
  \/ \E ls \in NewLayerLists \cup {<<>>} :
       Len(layers) + Len(ls) <= cap /\ AppendLayers(ls)
  \/ \E loc \in 1..cap, l \in NewLayers :
       Len(layers) < cap /\ loc <= Len(layers) + 1 /\ InsertLayer(loc, l)

NextStruct == StructOps(MaxLayers)

SpecStruct == InitStruct /\ [][NextStruct]_vars

\* ------------------------------------------------------ weights and loss
\* Weight lists a caller can pass to setWeights: one tag per entry.
WeightLists == UNION {[1..n -> Vals] : n \in 1..MaxLayers}

\* setWeights that hands the list out back to front.
SetWeightsReversed(weights) ==
  /\ Idle
  /\ lastOp' = "setWeights"
  /\ IF Len(weights) # Len(layers)
     THEN /\ err' = "ArityMismatch"
          /\ UNCHANGED layers
     ELSE /\ err' = "none"
          /\ layers' = [i \in 1..Len(layers) |->
                          LayerSetWeights(layers[i], weights[Len(weights) + 1 - i])]
  /\ UNCHANGED <<input_shape, inputs, num_outputs, target, layer_input_shapes,
                 vector_loss_func, vector_loss_derivative, scalar_loss,
                 trainingLoss, regVars, trainVars>>
  /\ NoPass

\* void setWeights(const std::list<Mat>& weights)
SetWeights(weights) ==
  /\ Idle
  /\ lastOp' = "setWeights"
  /\ IF Len(weights) # Len(layers)
     THEN /\ err' = "ArityMismatch"
          /\ UNCHANGED layers
     ELSE /\ err' = "none"
          /\ layers' = [i \in 1..Len(layers) |-> LayerSetWeights(layers[i], weights[i])]
  /\ UNCHANGED <<input_shape, inputs, num_outputs, target, layer_input_shapes,
                 vector_loss_func, vector_loss_derivative, scalar_loss,
                 trainingLoss, regVars, trainVars>>
  /\ NoPass

\* std::list<Mat> getWeights() const noexcept
GetWeights == [i \in 1..Len(layers) |-> LayerGetWeights(layers[i])]

\* Lists of hyperparameter sets and of activation names, one entry per layer.
ParamLists == UNION {[1..n -> Params] : n \in 1..MaxLayers}
ActLists == UNION {[1..n -> Acts] : n \in 1..MaxLayers}

\* Frame of an operation that only touches the layers.
LayersOnly ==
  /\ UNCHANGED <<input_shape, inputs, num_outputs, target, layer_input_shapes,
                 vector_loss_func, vector_loss_derivative, scalar_loss,
                 trainingLoss, regVars, trainVars>>
  /\ NoPass

\* void setUpdateParams(updateArgs... args) noexcept
SetUpdateParams(args) ==
  /\ Idle
  /\ lastOp' = "setUpdateParams"
  /\ err' = "none"
  /\ layers' = [i \in 1..Len(layers) |-> LayerSetUpdateParams(layers[i], args)]
  /\ LayersOnly

\* setUpdateParams(list) that checks the length only after the loop has set
\* the hyperparameters of the layers the list covers.
SetUpdateParamsListPartial(argsList) ==
  /\ Idle
  /\ lastOp' = "setUpdateParamsList"
  /\ err' = IF Len(argsList) # Len(layers) THEN "ArityMismatch" ELSE "none"
  /\ layers' = [i \in 1..Len(layers) |->
                  IF i <= Len(argsList)
                  THEN LayerSetUpdateParams(layers[i], argsList[i])
                  ELSE layers[i]]
  /\ LayersOnly

\* void setUpdateParams(const std::list<std::tuple<updateArgs...>>& argsList)
SetUpdateParamsList(argsList) ==
  /\ Idle
  /\ lastOp' = "setUpdateParamsList"
  /\ IF Len(argsList) # Len(layers)
     THEN /\ err' = "ArityMismatch"
          /\ UNCHANGED layers
     ELSE /\ err' = "none"
          /\ layers' = [i \in 1..Len(argsList) |->
                          LayerSetUpdateParams(layers[i], argsList[i])]
  /\ LayersOnly

\* void setActivations(std::string activations) noexcept
SetActivations(activations) ==
  /\ Idle
  /\ lastOp' = "setActivations"
  /\ err' = "none"
  /\ layers' = [i \in 1..Len(layers) |-> LayerSetActivation(layers[i], activations)]
  /\ LayersOnly

\* void setActivations(const std::list<std::string>& activations); the loop
\* runs over the list (line 303 names it argsList), whose length is the
\* layer count once the check has passed.
SetActivationsList(activations) ==
  /\ Idle
  /\ lastOp' = "setActivationsList"
  /\ IF Len(activations) # Len(layers)
     THEN /\ err' = "ArityMismatch"
          /\ UNCHANGED layers
     ELSE /\ err' = "none"
          /\ layers' = [i \in 1..Len(activations) |->
                          LayerSetActivation(layers[i], activations[i])]
  /\ LayersOnly

\* void setLossFunc(std::string loss)
SetLossFuncByName(loss) ==
  /\ Idle
  /\ lastOp' = "setLossFunc"
  /\ err' = "none"
  /\ vector_loss_func' = Lookup(VECTOR_LOSS, loss)
  /\ VECTOR_LOSS' = AfterLookup(VECTOR_LOSS, loss)
  /\ vector_loss_derivative' = Lookup(VECTOR_LOSS_DERIVATIVE, loss)
  /\ VECTOR_LOSS_DERIVATIVE' = AfterLookup(VECTOR_LOSS_DERIVATIVE, loss)
  /\ UNCHANGED <<input_shape, inputs, num_outputs, target, layers,
                 layer_input_shapes, scalar_loss, trainingLoss, trainVars>>
  /\ NoPass

\* void setLossFunc(const std::function&, const std::function&)
SetLossFuncCustom ==
  /\ Idle
  /\ lastOp' = "setLossFuncCustom"
  /\ err' = "none"
  /\ vector_loss_func' = "custom"
  /\ vector_loss_derivative' = "custom"
  /\ UNCHANGED <<input_shape, inputs, num_outputs, target, layers,
                 layer_input_shapes, scalar_loss, trainingLoss, regVars,
                 trainVars>>
  /\ NoPass

\* ------------------------------------------------------------- forward
\* outputs = layerOut: the Mat a layer returns read as a Vec.
AsVec(m) == [size |-> m.rows, val |-> m.val]

\* a - b on vectors, as an abstract function of the two content tags.
Sub(a, b) == [size |-> a.size, val |-> Mix(a.val, b.val)]

\* What the loss derivative returns on (out, tgt): pred - obs for "L2"
\* (line 32); a caller's own function is a function of the two vectors too.
VectorLossDerivative(out, tgt) == Sub(out, tgt)

\* The forward loop that hands every layer the network input.
RECURSIVE ForwardFromSameInput(_, _, _, _)
ForwardFromSameInput(ls, i, layerOut, log) ==
  IF i > Len(ls)
  THEN [layers |-> ls, layerOut |-> layerOut, log |-> log]
  ELSE LET l == LayerForwardPass(LayerSetInputs(ls[i], layerOut))
       IN ForwardFromSameInput([ls EXCEPT ![i] = l], i + 1,
                               IF i = Len(ls) THEN LayerGetOutputs(l) ELSE layerOut,
                               Append(log, [op |-> "forwardPass", layer |-> i,
                                            arg |-> layerOut]))

\* for(auto& l : layers) { l.setInputs(layerOut); l.forwardPass();
\*                         layerOut = l.getOutputs(); }      (lines 333-340)
\* from layer i on: the layers afterwards, the last layerOut, and the calls made.
RECURSIVE ForwardFrom(_, _, _, _)
ForwardFrom(ls, i, layerOut, log) ==
  IF i > Len(ls)
  THEN [layers |-> ls, layerOut |-> layerOut, log |-> log]
  ELSE LET l == LayerForwardPass(LayerSetInputs(ls[i], layerOut))
       IN ForwardFrom([ls EXCEPT ![i] = l], i + 1, LayerGetOutputs(l),
                      Append(log, [op |-> "forwardPass", layer |-> i,
                                   arg |-> layerOut]))

\* The body of predict(inputData, _target) and predictVal: setInputs and
\* setTarget without override, the forward pass through the layers, then
\* residual, loss and loss gradient.  Calling an empty std::function throws
\* std::bad_function_call; the value a non-empty loss function returns is a
\* free choice.
DoPredict(inputData, tgt) ==
  LET throwsI == /\ inputData # NoMat
                 /\ \/ inputData.rows # input_shape[1]
                    \/ inputData.cols # input_shape[2]
      setsT   == ~throwsI /\ tgt # NoVec
      throwsT == setsT /\ tgt.size # num_outputs
      throwsL == ~throwsI /\ ~throwsT /\ vector_loss_func = "empty"
      fwd     == ForwardFrom(layers, 1, inputs', <<>>)
      out     == AsVec(fwd.layerOut)
      lossCall == [op |-> "vector_loss_func", layer |-> 0,
                   arg |-> [out |-> out, tgt |-> target']]
      derivCall == [op |-> "vector_loss_derivative", layer |-> 0,
                    arg |-> [out |-> out, tgt |-> target']]
  IN /\ inputs' = IF inputData # NoMat /\ ~throwsI THEN inputData ELSE inputs
     /\ target' = IF setsT /\ ~throwsT THEN tgt ELSE target
     /\ err' = IF throwsI \/ throwsT THEN "ShapeMismatch"
               ELSE IF throwsL THEN "BadFunctionCall" ELSE "none"
     /\ IF throwsI \/ throwsT
        THEN /\ calls' = <<>>
             /\ UNCHANGED <<layers, outputs, resid, scalar_loss, loss_deriv>>
        ELSE /\ layers' = fwd.layers
             /\ outputs' = out
             /\ resid' = Sub(out, target')
             /\ IF throwsL
                THEN /\ calls' = Append(fwd.log, lossCall)
                     /\ UNCHANGED <<scalar_loss, loss_deriv>>
                ELSE /\ scalar_loss' \in Losses
                     /\ loss_deriv' = VectorLossDerivative(out, target')
                     /\ calls' = fwd.log \o <<lossCall, derivCall>>
     /\ UNCHANGED <<input_shape, num_outputs, layer_input_shapes,
                    vector_loss_func, vector_loss_derivative, gradient>>

\* void predict(std::optional<Mat> inputData, std::optional<Vec> _target)
Predict(inputData, tgt) ==
  /\ Idle
  /\ lastOp' = "predict"
  /\ DoPredict(inputData, tgt)
  /\ UNCHANGED <<trainingLoss, regVars, trainVars>>

\* Vec predictVal(std::optional<Mat> inputData, std::optional<Vec> _target)
PredictVal(inputData, tgt) ==
  /\ Idle
  /\ lastOp' = "predictVal"
  /\ DoPredict(inputData, tgt)
  /\ UNCHANGED <<trainingLoss, regVars, trainVars>>

\* ------------------------------------------------- backward and update
\* A size_t value converted to int_t, a signed integer of the same width.
ToIntT(x) == IF x >= SizeMod \div 2 THEN x - SizeMod ELSE x

\* The loop of backwardPass() that stops one layer short of the first.
BackwardLoopConditionStrict(i) == i > 0

\* line 387: i >= 0
BackwardLoopCondition(i) == i >= 0

\* for(int_t i = ...; i >= 0; i--) layers[i].backwardPass(layers[i+1]);
\* from index i (counted from 0, as in the code) down: the layers afterwards
\* and the calls made.
RECURSIVE BackwardFrom(_, _, _)
BackwardFrom(ls, i, log) ==
  IF BackwardLoopCondition(i)
  THEN BackwardFrom([ls EXCEPT ![i + 1] = LayerBackwardPassLayer(@, ls[i + 2])],
                    i - 1,
                    Append(log, [op |-> "backwardPass", layer |-> i + 1,
                                 arg |-> ls[i + 2]]))
  ELSE [layers |-> ls, log |-> log]

\* The body of backwardPass(), lines 385-390.  layers.size() - 2 is computed
\* in size_t and converted to int_t.
DoBackwardPass ==
  LET n == Len(layers)
      seeded == [layers EXCEPT ![n] = LayerBackwardPassLoss(@, loss_deriv)]
      bwd == BackwardFrom(seeded, ToIntT((n - 2) % SizeMod),
                          <<[op |-> "backwardPass", layer |-> n,
                             arg |-> loss_deriv]>>)
  IN /\ layers' = bwd.layers
     /\ gradient' = LayerGetGradient(bwd.layers[1])
     /\ calls' = bwd.log
     /\ UNCHANGED <<input_shape, inputs, num_outputs, target, layer_input_shapes,
                    vector_loss_func, vector_loss_derivative, scalar_loss,
                    outputs, resid, loss_deriv>>

\* void backwardPass()
BackwardPass ==
  /\ Idle
  /\ lastOp' = "backwardPass"
  /\ err' = "none"
  /\ DoBackwardPass
  /\ UNCHANGED <<trainingLoss, regVars, trainVars>>

\* Layer::updateWeights(): the update rule applied to the weights, a pure
\* function of the weights, the cached gradient and the hyperparameters.
LayerUpdateWeights(l) == [l EXCEPT !.weights = Mix(@, Mix(l.grad, l.params))]

\* The body of updateWeights(): for(auto& l : layers) l.updateWeights();
DoUpdateWeights ==
  /\ layers' = [i \in 1..Len(layers) |-> LayerUpdateWeights(layers[i])]
  /\ UNCHANGED <<input_shape, inputs, num_outputs, target, layer_input_shapes,
                 vector_loss_func, vector_loss_derivative, scalar_loss>>

\* void updateWeights()
UpdateWeights ==
  /\ Idle
  /\ lastOp' = "updateWeights"
  /\ err' = "none"
  /\ DoUpdateWeights
  /\ NoPass
  /\ UNCHANGED <<trainingLoss, regVars, trainVars>>

\* void updateWeights(const std::list<std::tuple<updateArgs...>>& argsList):
\* setUpdateParams(argsList), whose exception leaves at once, then
\* updateWeights().
UpdateWeightsList(argsList) ==
  /\ Idle
  /\ lastOp' = "updateWeightsList"
  /\ IF Len(argsList) # Len(layers)
     THEN /\ err' = "ArityMismatch"
          /\ UNCHANGED layers
     ELSE /\ err' = "none"
          /\ layers' = [i \in 1..Len(layers) |->
                          LayerUpdateWeights(LayerSetUpdateParams(layers[i], argsList[i]))]
  /\ LayersOnly

\* void updateWeights(updateArgs... args): setUpdateParams(args...), then
\* updateWeights().
UpdateWeightsArgs(args) ==
  /\ Idle
  /\ lastOp' = "updateWeightsArgs"
  /\ err' = "none"
  /\ layers' = [i \in 1..Len(layers) |->
                  LayerUpdateWeights(LayerSetUpdateParams(layers[i], args))]
  /\ LayersOnly

\* ---------------------------------------------------------------- train
\* train as a plain while loop: the condition is tested before any step.
TrainCheckFirst(tol, mi, inputData, tgt, np) ==
  /\ Idle
  /\ Len(trainingLoss) < HistCap(mi)
  /\ lastOp' = "train"
  /\ DoPredict(inputData, tgt)
  /\ IF err' = "none"
     THEN /\ pc' = "l425"
          /\ stopTol' = tol
          /\ maxIter' = mi
          /\ noprint' = np
          /\ events' = <<"predict">>
     ELSE /\ pc' = "idle"
          /\ stopTol' = 0
          /\ maxIter' = 0
          /\ noprint' = FALSE
          /\ events' = <<>>
  /\ num_iter' = 1
  /\ warned' = FALSE
  /\ UNCHANGED <<trainingLoss, regVars>>

\* void train(double stopTol, size_t maxIter, std::optional<Mat> inputData,
\*            std::optional<Vec> _target, bool noprint)
\* The call and line 419, predict(inputData, _target).  An exception leaves
\* train at once.
Train(tol, mi, inputData, tgt, np) ==
  /\ Idle
  /\ Len(trainingLoss) < HistCap(mi)
  /\ lastOp' = "train"
  /\ DoPredict(inputData, tgt)
  /\ IF err' = "none"
     THEN /\ pc' = "l420"
          /\ stopTol' = tol
          /\ maxIter' = mi
          /\ noprint' = np
          /\ events' = <<"predict">>
     ELSE /\ pc' = "idle"
          /\ stopTol' = 0
          /\ maxIter' = 0
          /\ noprint' = FALSE
          /\ events' = <<>>
  /\ num_iter' = 0
  /\ warned' = FALSE
  /\ UNCHANGED <<trainingLoss, regVars>>

\* Frame of a step inside train().
TrainFrame == UNCHANGED <<regVars, stopTol, maxIter, noprint, warned, err, lastOp>>

\* line 420: backwardPass();
Train420 ==
  /\ pc = "l420"
  /\ DoBackwardPass
  /\ events' = Append(events, "backward")
  /\ pc' = "l421"
  /\ UNCHANGED <<trainingLoss, num_iter>>
  /\ TrainFrame

\* line 421: trainingLoss.push_back(scalar_loss);
Train421 ==
  /\ pc = "l421"
  /\ trainingLoss' = Append(trainingLoss, scalar_loss)
  /\ events' = Append(events, "record")
  /\ pc' = "l422"
  /\ UNCHANGED <<netVars, passVars, num_iter>>
  /\ TrainFrame

\* line 422: size_t num_iter = 1;
Train422 ==
  /\ pc = "l422"
  /\ num_iter' = 1
  /\ pc' = "l423"
  /\ UNCHANGED <<netVars, passVars, trainingLoss, events>>
  /\ TrainFrame

\* line 423: updateWeights();
Train423 ==
  /\ pc = "l423"
  /\ DoUpdateWeights
  /\ events' = Append(events, "update")
  /\ pc' = "l425"
  /\ UNCHANGED <<passVars, trainingLoss, num_iter>>
  /\ TrainFrame

\* The loop condition with < for <=.
LoopConditionStrict == num_iter < maxIter /\ scalar_loss > stopTol

\* line 425: while(num_iter <= maxIter and scalar_loss > stopTol)
LoopCondition == num_iter <= maxIter /\ scalar_loss > stopTol

Train425 ==
  /\ pc = "l425"
  /\ events' = Append(events, "check")
  /\ pc' = IF LoopCondition THEN "l427" ELSE "l433"
  /\ UNCHANGED <<netVars, passVars, trainingLoss, num_iter>>
  /\ TrainFrame

\* line 427: predict()
Train427 ==
  /\ pc = "l427"
  /\ Len(trainingLoss) < HistCap(maxIter)
  /\ DoPredict(NoMat, NoVec)
  /\ IF err' = "none"
     THEN /\ pc' = "l428"
          /\ events' = Append(events, "predict")
          /\ UNCHANGED <<stopTol, maxIter, noprint, num_iter>>
     ELSE /\ pc' = "idle"
          /\ events' = <<>>
          /\ stopTol' = 0
          /\ maxIter' = 0
          /\ noprint' = FALSE
          /\ num_iter' = 0
  /\ UNCHANGED <<trainingLoss, regVars, warned, lastOp>>

\* A loop body without its backward pass.
Train428NoBackward ==
  /\ pc = "l428"
  /\ pc' = "l429"
  /\ UNCHANGED <<netVars, passVars, trainingLoss, num_iter, events>>
  /\ TrainFrame

\* line 428: backwardPass();
Train428 ==
  /\ pc = "l428"
  /\ DoBackwardPass
  /\ events' = Append(events, "backward")
  /\ pc' = "l429"
  /\ UNCHANGED <<trainingLoss, num_iter>>
  /\ TrainFrame

\* line 429: trainingLoss.push_back(scalar_loss);
Train429 ==
  /\ pc = "l429"
  /\ trainingLoss' = Append(trainingLoss, scalar_loss)
  /\ events' = Append(events, "record")
  /\ pc' = "l430"
  /\ UNCHANGED <<netVars, passVars, num_iter>>
  /\ TrainFrame

\* line 430: updateWeights();
Train430 ==
  /\ pc = "l430"
  /\ DoUpdateWeights
  /\ events' = Append(events, "update")
  /\ pc' = "l431"
  /\ UNCHANGED <<passVars, trainingLoss, num_iter>>
  /\ TrainFrame

\* line 431: num_iter++;  (size_t: modulo 2^SizeBits)
Train431 ==
  /\ pc = "l431"
  /\ num_iter' = (num_iter + 1) % SizeMod
  /\ pc' = "l425"
  /\ UNCHANGED <<netVars, passVars, trainingLoss, events>>
  /\ TrainFrame

\* line 433: if(num_iter == maxIter and not noprint) std::cout << "WARNING: ..."
WarningCondition == num_iter = maxIter /\ ~noprint

Train433 ==
  /\ pc = "l433"
  /\ warned' = WarningCondition
  /\ pc' = "done"
  /\ UNCHANGED <<netVars, passVars, trainingLoss, regVars, stopTol, maxIter, noprint,
                 num_iter, events, err, lastOp>>

\* line 437: train returns; its parameters and locals are gone.
TrainReturn ==
  /\ pc = "done"
  /\ pc' = "idle"
  /\ stopTol' = 0
  /\ maxIter' = 0
  /\ noprint' = FALSE
  /\ num_iter' = 0
  /\ warned' = FALSE
  /\ events' = <<>>
  /\ UNCHANGED <<netVars, passVars, trainingLoss, regVars, err, lastOp>>

TrainSteps ==
  \/ Train420 \/ Train421 \/ Train422 \/ Train423 \/ Train425
  \/ Train427 \/ Train428 \/ Train429 \/ Train430 \/ Train431
  \/ Train433 \/ TrainReturn

\* ------------------------------------------------- the training loop alone
\* A one-layer network from each of the first two constructors (the second
\* leaves the loss functions empty) and a two-layer one from the third; the
\* replacement input and target of a call are absent, of the declared shape,
\* or of another one.
InitTrain ==
  /\ \/ Ctor1(<<1, 1>>, 1, "L2")
     \/ Ctor2(<<UnitLayer>>)
     \/ Ctor3("L2", <<UnitLayer, UnitLayer>>)
  /\ inputs.val = 0
  /\ target.val = 0
  /\ \A i \in 1..Len(layers) : layers[i].weights = 0
  /\ layers[1].activation = DefaultAct
  /\ outputs.val = 0
  /\ outputs.size = 1 \/ lastOp = "Network1"
  /\ loss_deriv = outputs

TrainMats == {NoMat} \cup {m \in Mats : m.rows = 1 /\ m.val = 0}
TrainVecs == {NoVec} \cup {v \in Vecs : v.val = 0}

NextTrain ==
  \/ \E tol \in Tols, mi \in 0..MaxIterArg, inputData \in TrainMats,
        tgt \in TrainVecs, np \in BOOLEAN : Train(tol, mi, inputData, tgt, np)
  \/ TrainSteps

SpecTrain == InitTrain /\ [][NextTrain]_vars

\* -------------------------- calls that bring a new input and a new target
\* A one-layer network of input shape 1x1 and one output; a call brings no
\* input or one of the declared shape with either content, and no target or
\* one of either length.
InitReplace ==
  /\ Ctor1(<<1, 1>>, 1, "L2")
  /\ inputs.val = 0
  /\ target.val = 0
  /\ layers[1].weights = 0
  /\ layers[1].activation = DefaultAct
  /\ scalar_loss = 0
  /\ outputs = target
  /\ loss_deriv = target

ReplaceMats == {NoMat} \cup {m \in Mats : ShapeOf(m) = <<1, 1>>}
ReplaceVecs == {NoVec} \cup Vecs

NextReplace ==
  \/ \E inputData \in ReplaceMats, tgt \in ReplaceVecs : Predict(inputData, tgt)
  \/ \E inputData \in ReplaceMats, tgt \in ReplaceVecs : PredictVal(inputData, tgt)
  \/ \E inputData \in ReplaceMats, tgt \in ReplaceVecs :
       Train(0, 1, inputData, tgt, TRUE)
  \/ TrainSteps

SpecReplace == InitReplace /\ [][NextReplace]_vars

\* ------------------------------- train with the largest size_t as maxIter
MaxSizeT == SizeMod - 1

\* Calls of train(stopTol, maxIter = the largest size_t) on a one- or a
\* two-layer network, the input and target being the stored ones.
InitWrap ==
  /\ \/ Ctor1(<<1, 1>>, 1, "L2")
     \/ Ctor3("L2", <<UnitLayer, UnitLayer>>)
  /\ inputs.val = 0
  /\ target = [size |-> 1, val |-> 0]
  /\ \A i \in 1..Len(layers) : layers[i].weights = 0
  /\ layers[1].activation = DefaultAct
  /\ scalar_loss = 0
  /\ outputs = target
  /\ loss_deriv = target

NextWrap ==
  \/ \E tol \in Tols, np \in BOOLEAN :
       /\ trainingLoss = <<>>
       /\ Train(tol, MaxSizeT, NoMat, NoVec, np)
  \/ TrainSteps

SpecWrap == InitWrap /\ [][NextWrap]_vars

\* ------------------------------- structural edits, setInputs and setTarget
ShapeMats == {m \in Mats : m.val = 0}

NextShape ==
  \/ StructOps(MaxArgLayers)
  \/ \E m \in ShapeMats, ov \in BOOLEAN : SetInputs(m, ov)
  \/ \E v \in Vecs, ov \in BOOLEAN : SetTarget(v, ov)

SpecShape == InitStruct /\ [][NextShape]_vars

\* ------------------------------- weights, hyperparameters and activations
\* Networks of one to MaxLayers layers; lists of every length up to MaxLayers,
\* so that each per-layer setter is called with a matching and with a
\* non-matching list.
InitWeights ==
  /\ \/ Ctor1(<<1, 1>>, 1, "L2")
     \/ Ctor3("L2", <<UnitLayer, UnitLayer>>)
  /\ inputs.val = 0
  /\ target = [size |-> 1, val |-> 0]
  /\ layers[1].weights = 0
  /\ layers[1].activation = DefaultAct
  /\ scalar_loss = 0
  /\ outputs = target
  /\ loss_deriv = target

NextWeights ==
  \/ \E ws \in WeightLists : SetWeights(ws)
  \/ SetWeights(GetWeights)
  \/ \E args \in Params : SetUpdateParams(args)
  \/ \E argsList \in ParamLists : SetUpdateParamsList(argsList)
  \/ \E act \in Acts : SetActivations(act)
  \/ \E acts \in ActLists : SetActivationsList(acts)
  \/ UpdateWeights
  \/ \E argsList \in ParamLists : UpdateWeightsList(argsList)
  \/ \E args \in Params : UpdateWeightsArgs(args)
  \/ Len(layers) < MaxLayers /\ AppendLayers(<<UnitLayer>>)

SpecWeights == InitWeights /\ [][NextWeights]_vars

\* ------------------------------------------------------ loss registries
\* Names a registry maps to a callable function.
Registered(reg) == {n \in DOMAIN reg : reg[n] # "empty"}

\* Network(input_shape, num_outputs, activation, loss) run again in the same
\* process: the Network it builds takes the place of the one observed, and
\* the lookups of lines 75-76 go to the registries as they are by then.
Construct1(shape, nout, loss) ==
  /\ Idle
  /\ lastOp' = "Network1"
  /\ err' = "none"
  /\ input_shape' = shape
  /\ inputs' \in {m \in Mats : ShapeOf(m) = shape}
  /\ num_outputs' = nout
  /\ target' \in {v \in Vecs : v.size = nout}
  /\ vector_loss_func' = Lookup(VECTOR_LOSS, loss)
  /\ vector_loss_derivative' = Lookup(VECTOR_LOSS_DERIVATIVE, loss)
  /\ VECTOR_LOSS' = AfterLookup(VECTOR_LOSS, loss)
  /\ VECTOR_LOSS_DERIVATIVE' = AfterLookup(VECTOR_LOSS_DERIVATIVE, loss)
  /\ layers' \in {ls \in [1..1 -> LayerSet] :
                    ls[1].inputShape = shape /\ ls[1].numOutputs = nout}
  /\ layer_input_shapes' = <<shape>>
  /\ scalar_loss' \in Losses
  /\ outputs' \in {v \in Vecs : v.size = nout}
  /\ loss_deriv' \in {v \in Vecs : v.size = nout}
  /\ resid' = EmptyVec
  /\ gradient' = EmptyMat.val
  /\ calls' = <<>>
  /\ trainingLoss' = <<>>
  /\ UNCHANGED trainVars

\* One-layer networks from the three constructors; every loss name, the
\* registered and the unregistered, at construction and at setLossFunc.
InitLoss ==
  /\ \/ Ctor1(<<1, 1>>, 1, "L2")
     \/ Ctor2(<<UnitLayer>>)
     \/ Ctor3("L2", <<UnitLayer>>)
  /\ inputs.val = 0
  /\ target = [size |-> 1, val |-> 0]
  /\ layers[1].weights = 0
  /\ layers[1].activation = DefaultAct
  /\ scalar_loss = 0
  /\ outputs = target
  /\ loss_deriv = target

NextLoss ==
  \/ \E loss \in LossNames :
       /\ Construct1(<<1, 1>>, 1, loss)
       /\ inputs'.val = 0
       /\ target'.val = 0
       /\ layers'[1].weights = 0
       /\ layers'[1].activation = DefaultAct
       /\ scalar_loss' = 0
       /\ outputs' = target'
       /\ loss_deriv' = target'
  \/ \E loss \in LossNames : SetLossFuncByName(loss)
  \/ SetLossFuncCustom
  \/ \E tgt \in {NoVec} \cup {v \in Vecs : v.size = 1} : Predict(NoMat, tgt)

SpecLoss == InitLoss /\ [][NextLoss]_vars

\* ------------------------------------------- forward and backward passes
\* Networks of one to MaxLayers layers whose weights and target take every
\* content tag; the replacement input and target of a call are absent or of
\* the declared shape.
InitPass ==
  /\ \/ Ctor1(<<1, 1>>, 1, "L2")
     \/ Ctor3("L2", <<UnitLayer, UnitLayer>>)
  /\ inputs = [rows |-> 1, cols |-> 1, val |-> 0]
  /\ target = [size |-> 1, val |-> 0]
  /\ layers[1].weights = 0
  /\ layers[1].activation = DefaultAct
  /\ scalar_loss = 0
  /\ outputs = target
  /\ loss_deriv = target

PassMats == {NoMat} \cup {m \in Mats : ShapeOf(m) = <<1, 1>> /\ m.val = 0}
PassVecs == {NoVec} \cup {v \in Vecs : v.size = 1}

NextPass ==
  \/ \E inputData \in PassMats, tgt \in PassVecs : Predict(inputData, tgt)
  \/ \E inputData \in PassMats, tgt \in PassVecs : PredictVal(inputData, tgt)
  \/ BackwardPass
  \/ \E ws \in WeightLists : SetWeights(ws)
  \/ Len(layers) < MaxLayers /\ AppendLayers(<<UnitLayer>>)

SpecPass == InitPass /\ [][NextPass]_vars

\* ------------------------------------------------------- every operation
\* One network, and for each operation arguments it accepts and arguments
\* it rejects.
OpMats == {m \in Mats : m.rows = 1 /\ m.val = 0}
OpVecs == {v \in Vecs : v.val = 0}
OpWeightLists == {ws \in WeightLists : \A i \in 1..Len(ws) : ws[i] = 0}

Init ==
  /\ Ctor1(<<1, 1>>, 1, "L2")
  /\ inputs.val = 0
  /\ target.val = 0
  /\ layers[1].weights = 0
  /\ layers[1].activation = DefaultAct
  /\ scalar_loss = 0
  /\ outputs.val = 0
  /\ outputs.size = 1 \/ lastOp = "Network1"
  /\ loss_deriv = outputs

Next ==
  \/ \E m \in OpMats, ov \in BOOLEAN : SetInputs(m, ov)
  \/ \E v \in OpVecs, ov \in BOOLEAN : SetTarget(v, ov)
  \/ SetLayers(<<UnitLayer>>)
  \/ Len(layers) < MaxArgLayers /\ AppendLayers(<<UnitLayer>>)
  \/ \E loc \in 1..MaxArgLayers :
       Len(layers) < MaxArgLayers /\ loc <= Len(layers) + 1 /\ InsertLayer(loc, UnitLayer)
  \/ \E ws \in OpWeightLists : SetWeights(ws)
  \/ SetUpdateParams(0)
  \/ \E as \in OpWeightLists : SetUpdateParamsList(as)
  \/ SetActivations(DefaultAct)
  \/ \E n \in 1..MaxArgLayers : SetActivationsList([i \in 1..n |-> DefaultAct])
  \/ \E as \in OpWeightLists : UpdateWeightsList(as)
  \/ UpdateWeightsArgs(0)
  \/ SetLossFuncByName("L2")
  \/ SetLossFuncCustom
  \/ \E inputData \in {NoMat} \cup OpMats, tgt \in {NoVec} \cup OpVecs :
       Predict(inputData, tgt)
  \/ \E inputData \in {NoMat} \cup OpMats, tgt \in {NoVec} \cup OpVecs :
       PredictVal(inputData, tgt)
  \/ BackwardPass
  \/ UpdateWeights
  \/ \E mi \in 0..1, inputData \in {NoMat} \cup OpMats, tgt \in {NoVec} \cup OpVecs :
       trainingLoss = <<>> /\ Train(0, mi, inputData, tgt, FALSE)
  \/ TrainSteps

Spec == Init /\ [][Next]_vars

\* ================================================================ claims
IsPrefix(a, b) == Len(a) <= Len(b) /\ SubSeq(b, 1, Len(a)) = a

FirstStep == <<"predict", "backward", "record", "update">>

\* Entries the running train() call has appended to the history.
RecordCount == Cardinality({i \in 1..Len(events) : events[i] = "record"})

\* C1: whenever train() evaluates its stopping condition, the call has
\* already run predict, backwardPass, the history append and updateWeights
\* once, in that order -- for every stopTol and maxIter, maxIter = 0 and a
\* loss already at or below stopTol included.
C1_StepBeforeFirstCheck ==
  /\ pc = "l425" => Len(events) >= 4 /\ SubSeq(events, 1, 4) = FirstStep
  /\ \A i \in 1..Len(events) : events[i] = "check" => i > 4

\* C1 witness: the first evaluation of the condition, with maxIter = 0 and the
\* loss of the first step within the tolerance.
C1_Witness ==
  /\ pc = "l425"
  /\ events = FirstStep
  /\ maxIter = 0
  /\ scalar_loss <= stopTol

\* C2: after a step, train() runs a further step only if the counter does not
\* exceed maxIter and the loss recorded by that step is above stopTol, and it
\* leaves the loop only if the counter exceeds maxIter or that loss is at or
\* below stopTol.
C2_StopsExactly ==
  /\ pc = "l427" => num_iter <= maxIter /\ trainingLoss[Len(trainingLoss)] > stopTol
  /\ pc = "l433" => num_iter > maxIter \/ trainingLoss[Len(trainingLoss)] <= stopTol

\* C2 witness: the loop has run and is left on the counter alone, the loss
\* still above the tolerance.
C2_Witness ==
  /\ pc = "l433"
  /\ maxIter >= 1
  /\ num_iter > maxIter
  /\ trainingLoss[Len(trainingLoss)] > stopTol

\* C3 (as claimed): a train() call with maxIter = N >= 1 that starts on an
\* empty history and never sees a loss at or below stopTol returns with
\* exactly N history entries.
C3_MaxIterEntries ==
  ( /\ pc = "done"
    /\ maxIter >= 1
    /\ RecordCount = Len(trainingLoss)
    /\ \A i \in 1..Len(trainingLoss) : trainingLoss[i] > stopTol )
  => Len(trainingLoss) = maxIter

\* C4 (as claimed): train() has written the warning exactly when it stopped
\* on the iteration maximum with the loss still above stopTol and noprint off.
C4_WarningIffMaxReached ==
  pc = "done" =>
    (warned <=> (num_iter > maxIter /\ scalar_loss > stopTol /\ ~noprint))

\* C5: every step of every operation leaves the old loss history as a prefix
\* of the new one, and the history changes only inside a train() call.
C5_HistoryAppendOnly ==
  [][ /\ IsPrefix(trainingLoss, trainingLoss')
      /\ trainingLoss' # trainingLoss => (pc # "idle" /\ lastOp' = "train") ]_vars

\* C5 witness: a call that raised an error after training had filled the history.
C5_Witness ==
  /\ Len(trainingLoss) >= 2
  /\ lastOp = "setWeights"
  /\ err = "ArityMismatch"

\* C6: after construction and any sequence of setLayers, appendLayers and
\* insertLayer, layer_input_shapes has one entry per layer, the i-th being the
\* declared input shape of the i-th layer.
C6_ShapesInSync ==
  /\ Len(layer_input_shapes) = Len(layers)
  /\ \A i \in 1..Len(layers) : layer_input_shapes[i] = layers[i].inputShape

\* C6 witness: an insertLayer has produced a list of three layers whose
\* neighbouring input shapes differ.
C6_Witness ==
  /\ lastOp = "insertLayer"
  /\ Len(layers) >= 3
  /\ layers[1].inputShape # layers[2].inputShape
  /\ layers[2].inputShape # layers[3].inputShape

\* C7 (as claimed): after construction from a layer list and after every
\* structural edit, num_outputs is the output width of the last layer.
C7_NumOutputsIsLastWidth ==
  lastOp \in {"Network2", "Network3", "setLayers", "appendLayers", "insertLayer"}
    => num_outputs = layers[Len(layers)].numOutputs

\* C8 (as claimed): after construction, a structural edit or setInputs with
\* override, input_shape is the first layer's declared input shape and the
\* first entry of layer_input_shapes; after the override all three are the
\* shape of the matrix passed in.
C8_InputShapeInSync ==
  lastOp \in {"Network1", "Network2", "Network3", "setLayers", "appendLayers",
              "insertLayer", "setInputsOverride"}
    => /\ input_shape = layers[1].inputShape
       /\ input_shape = layer_input_shapes[1]
       /\ lastOp = "setInputsOverride" => layers[1].inputShape = ShapeOf(inputs)

\* C9 (as claimed): a setTarget(v, ov) that returns stores v, leaves
\* num_outputs equal to the length of v, and, when ov is set and the length
\* differs, makes the last layer's output width that length too.
C9_SetTargetStoresAndSizes ==
  [][ \A v \in Vecs, ov \in BOOLEAN :
        (SetTarget(v, ov) /\ err' = "none")
          => /\ target' = v
             /\ target'.size = num_outputs'
             /\ (ov /\ v.size # num_outputs)
                  => /\ num_outputs' = v.size
                     /\ layers'[Len(layers')].numOutputs = v.size ]_vars

\* C10: setInputs without override on a matrix of another shape, and
\* setTarget without override on a vector of another length, raise the shape
\* error and change nothing of the network.
C10_RejectedCallsHaveNoEffect ==
  [][ /\ \A m \in Mats :
           (SetInputs(m, FALSE) /\ ShapeOf(m) # input_shape)
             => err' = "ShapeMismatch" /\ UNCHANGED <<netVars, resultVars, trainingLoss>>
      /\ \A v \in Vecs :
           (SetTarget(v, FALSE) /\ v.size # num_outputs)
             => err' = "ShapeMismatch" /\ UNCHANGED <<netVars, resultVars, trainingLoss>> ]_vars

\* C10 witness: setInputs has rejected a matrix of another shape.
C10_Witness ==
  /\ lastOp = "setInputs"
  /\ err = "ShapeMismatch"

\* C11: setWeights, setUpdateParams(list), updateWeights(list) and
\* setActivations(list) called with a list whose length is not the layer
\* count raise the arity error and leave every layer as it was: weights,
\* hyperparameters and activation unchanged, and no weight update applied.
C11_ArityMismatchChangesNoLayer ==
  [][ /\ \A ws \in WeightLists :
           (SetWeights(ws) /\ Len(ws) # Len(layers))
             => err' = "ArityMismatch" /\ layers' = layers
      /\ \A argsList \in ParamLists :
           (SetUpdateParamsList(argsList) /\ Len(argsList) # Len(layers))
             => err' = "ArityMismatch" /\ layers' = layers
      /\ \A argsList \in ParamLists :
           (UpdateWeightsList(argsList) /\ Len(argsList) # Len(layers))
             => err' = "ArityMismatch" /\ layers' = layers
      /\ \A acts \in ActLists :
           (SetActivationsList(acts) /\ Len(acts) # Len(layers))
             => err' = "ArityMismatch" /\ layers' = layers ]_vars

\* C11 witness: updateWeights(list) has failed on a network of two layers or
\* more whose hyperparameters differ from layer to layer.
C11_Witness ==
  /\ lastOp = "updateWeightsList"
  /\ err = "ArityMismatch"
  /\ Len(layers) >= 2
  /\ layers[1].params # layers[2].params

\* C14: setWeights(getWeights()) returns without an error and leaves every
\* layer as it was, so the forward pass on the current input gives the
\* output it gave before.
C14_SetGetWeightsIsIdentity ==
  [][ SetWeights(GetWeights)
        => /\ err' = "none"
           /\ layers' = layers
           /\ ForwardFrom(layers', 1, inputs', <<>>).layerOut
                = ForwardFrom(layers, 1, inputs, <<>>).layerOut ]_vars

\* C14 witness: setWeights has returned on a network whose layers hold
\* different weights.
C14_Witness ==
  /\ lastOp = "setWeights"
  /\ err = "none"
  /\ Len(layers) >= 2
  /\ layers[1].weights # layers[2].weights

\* C12 (as claimed): backwardPass called right after construction, or right
\* after another backwardPass, raises an error: it calls no layer's backward
\* operation and leaves the layers and the exposed gradient as they were.
C12_StaleBackwardRaises ==
  [][ ( /\ BackwardPass
        /\ lastOp \in {"Network1", "Network2", "Network3", "backwardPass"} )
        => /\ err' # "none"
           /\ calls' = <<>>
           /\ layers' = layers
           /\ gradient' = gradient ]_vars

\* C16: backwardPass returns for every layer count n >= 1 having called each
\* layer's backward operation once, from the last layer to the first: the
\* last layer with the loss gradient of the last forward pass, layer i < n
\* with layer i+1 as that layer's own backward call left it; the exposed
\* gradient is then the first layer's parameter gradient.
C16_BackwardWalksLastToFirst ==
  [][ BackwardPass =>
        LET n == Len(layers)
        IN /\ Len(calls') = n
           /\ \A k \in 1..n : /\ calls'[k].op = "backwardPass"
                               /\ calls'[k].layer = n + 1 - k
           /\ calls'[1].arg = loss_deriv
           /\ \A k \in 2..n : calls'[k].arg = layers'[n + 2 - k]
           /\ layers'[n] = LayerBackwardPassLoss(layers[n], loss_deriv)
           /\ \A i \in 1..(n - 1) :
                layers'[i] = LayerBackwardPassLayer(layers[i], layers'[i + 1])
           /\ gradient' = LayerGetGradient(layers'[1]) ]_vars

\* C16 witness: backwardPass has returned on a network of a single layer.
C16_Witness ==
  /\ lastOp = "backwardPass"
  /\ err = "none"
  /\ Len(layers) = 1
  /\ Len(calls) = 1

\* C17: a predict or predictVal that returns has run the forward pass of each
\* layer once, in list order, the first on the network input and layer i+1
\* on the output of layer i; outputs is the last layer's output, and the
\* residual, the loss and the loss gradient are taken from that output and
\* the target the call leaves in place.
C17_PredictThreadsLayers ==
  [][ (pc = "idle" /\ lastOp' \in {"predict", "predictVal"} /\ err' = "none") =>
        LET n == Len(layers)
            lossArg == [out |-> outputs', tgt |-> target']
        IN /\ Len(calls') = n + 2
           /\ \A i \in 1..n : /\ calls'[i].op = "forwardPass"
                               /\ calls'[i].layer = i
                               /\ layers'[i] = LayerForwardPass(
                                                  LayerSetInputs(layers[i], calls'[i].arg))
           /\ calls'[1].arg = inputs'
           /\ \A i \in 2..n : calls'[i].arg = LayerGetOutputs(layers'[i - 1])
           /\ outputs' = AsVec(LayerGetOutputs(layers'[n]))
           /\ resid' = Sub(outputs', target')
           /\ calls'[n + 1] = [op |-> "vector_loss_func", layer |-> 0, arg |-> lossArg]
           /\ calls'[n + 2] = [op |-> "vector_loss_derivative", layer |-> 0,
                               arg |-> lossArg]
           /\ loss_deriv' = VectorLossDerivative(outputs', target') ]_vars

\* C17 witness: predict has returned on a network of three layers in which the
\* second layer read something else than the first.
C17_Witness ==
  /\ lastOp = "predict"
  /\ err = "none"
  /\ Len(layers) = 3
  /\ Len(calls) = 5
  /\ calls[1].arg.val # calls[2].arg.val

\* C13 (as claimed): construction with, and setLossFunc of, a name the
\* registry has no function for raise an error; neither installs an empty
\* function, and after the failed setLossFunc the loss function and its
\* derivative are the ones the network had.
C13_UnknownLossNameRaises ==
  [][ \A loss \in LossNames :
        loss \notin Registered(VECTOR_LOSS) =>
          /\ SetLossFuncByName(loss)
                => /\ err' # "none"
                   /\ vector_loss_func' = vector_loss_func
                   /\ vector_loss_derivative' = vector_loss_derivative
          /\ (\E shape \in Shapes, nout \in Dims : Construct1(shape, nout, loss))
                => /\ err' # "none"
                   /\ vector_loss_func' # "empty" ]_vars

\* C20 (as claimed): no operation and no construction changes the set of
\* names in VECTOR_LOSS or in VECTOR_LOSS_DERIVATIVE.
C20_RegistriesKeepTheirNames ==
  [][ /\ DOMAIN VECTOR_LOSS' = DOMAIN VECTOR_LOSS
      /\ DOMAIN VECTOR_LOSS_DERIVATIVE' = DOMAIN VECTOR_LOSS_DERIVATIVE ]_vars

\* The operations of the steps of the running train call, the loop tests
\* left out.
StepEvents == SelectSeq(events, LAMBDA e : e # "check")

StepOrder == <<"predict", "backward", "record", "update">>

UpdatesDone == Cardinality({i \in 1..Len(events) : events[i] = "update"})

C18_BadTargetCallHasNoEffect ==
  [][ \A inputData \in Mats, tgt \in Vecs :
        ( /\ ShapeOf(inputData) = input_shape
          /\ tgt.size # num_outputs
          /\ \/ Predict(inputData, tgt)
             \/ PredictVal(inputData, tgt)
             \/ \E tol \in Tols, mi \in 0..MaxIterArg, np \in BOOLEAN :
                  Train(tol, mi, inputData, tgt, np) )
        => /\ err' = "ShapeMismatch"
           /\ UNCHANGED <<inputs, target, outputs, scalar_loss, trainingLoss>> ]_vars

\* C19 (as claimed, for the largest maxIter): a train call ends, so it
\* completes no more steps than the first one and one per counter value
\* 1..maxIter.
C19_TrainEndsForLargestMaxIter ==
  (pc # "idle" /\ maxIter = MaxSizeT) => UpdatesDone <= maxIter + 1

====
